---- MODULE Spec2Model ----
(***************************************************************************)
(* Model of the Vistro backend (src/main.py, src/schemas.py): the request  *)
(* handlers for products, orders and seeding, the Pydantic schemas that    *)
(* guard them, and the identifier serialisation of the responses.          *)
(*                                                                         *)
(* JSON / BSON values are tagged records, so that the dynamic type test of *)
(* serialize_doc (isinstance(v, ObjectId)) can be computed:                *)
(*   [str |-> s]  [num |-> n]  [bool |-> b]  [none |-> TRUE]               *)
(*   [list |-> <<v1, ...>>]  [doc |-> [key |-> value]]  [oid |-> n]        *)
(* An identifier string (a path parameter, a CartItem.product_id, a        *)
(* serialised id) is a sequence of one-character strings, so that parsing  *)
(* it (bson.ObjectId(s)) and printing it (str(oid)) are computed.          *)
(***************************************************************************)
EXTENDS Integers, Sequences, FiniteSets, TLC

VARIABLES
    dbConfigured,   \* main.py:8   `db is not None` (set once, at import)
    product,        \* the store's "product" collection, in insertion order
    order,          \* the store's "order" collection, in insertion order
    nextId,         \* the next identifier the store generates
    last,           \* the last request served and its response
    created,        \* history: the 201 responses of create_product so far
    pc,             \* concurrent seed requests: position of each request
    seedIdx,        \* concurrent seed requests: next SAMPLE_PRODUCTS index
    seedOut,        \* concurrent seed requests: the response of each
    payload,        \* serialisation: the document handed to serialize_doc
    out             \* serialisation: what serialize_doc returned

vars == <<dbConfigured, product, order, nextId, last, created,
          pc, seedIdx, seedOut, payload, out>>

----------------------------------------------------------------------------
(* Bounds of the model.                                                    *)

\* hex digits of an identifier string (24 in bson)
IdLen == 2
\* the first identifier the store generates
FirstId == 10
\* create_product requests that are served with a write
MaxCreated == 1
\* create_order requests that are served with a write
MaxOrders == 1
\* items of an order body
MaxItems == 2
\* concurrent seed requests
NumSeeders == 3

----------------------------------------------------------------------------
(* Values.                                                                 *)

S(s) == [str |-> s]
N(n) == [num |-> n]
B(b) == [bool |-> b]
L(q) == [list |-> q]
D(d) == [doc |-> d]
Oid(n) == [oid |-> n]
None == [none |-> TRUE]

\* isinstance(v, ObjectId)
IsObjectId(v) == "oid" \in DOMAIN v

RECURSIVE Pow16(_)
Pow16(k) == IF k = 0 THEN 1 ELSE 16 * Pow16(k - 1)

HexLower == <<"0", "1", "2", "3", "4", "5", "6", "7",
              "8", "9", "a", "b", "c", "d", "e", "f">>
HexUpper == <<"0", "1", "2", "3", "4", "5", "6", "7",
              "8", "9", "A", "B", "C", "D", "E", "F">>

HexChars == {HexLower[i] : i \in 1..Len(HexLower)} \cup {HexUpper[i] : i \in 1..Len(HexUpper)}
HexDigit == [c \in HexChars |->
                (CHOOSE i \in 1..Len(HexLower) : HexLower[i] = c \/ HexUpper[i] = c) - 1]

IsHex(c) == c \in HexChars
DigitVal(c) == HexDigit[c]

\* bson.ObjectId(s) raises InvalidId unless s is IdLen hex digits (either case)
ObjectIdValid(s) == Len(s) = IdLen /\ \A i \in 1..Len(s) : IsHex(s[i])

RECURSIVE HexValue(_)
HexValue(s) == IF s = <<>> THEN 0
               ELSE 16 * HexValue(SubSeq(s, 1, Len(s) - 1)) + DigitVal(s[Len(s)])

\* bson.ObjectId(s), for a valid s
ObjectId(s) == Oid(HexValue(s))

\* str(oid): IdLen lower-case hex digits
str(v) == [i \in 1..IdLen |-> HexLower[((v.oid \div Pow16(IdLen - i)) % 16) + 1]]

----------------------------------------------------------------------------
(* Texts.  Only equality and emptiness of a text matter to the handlers,   *)
(* so the long texts of SAMPLE_PRODUCTS are abbreviated.                   *)

Empty == <<>>
Vistro == <<"V", "i", "s", "t", "r", "o">>
Hoodies == <<"H", "o", "o", "d", "i", "e", "s">>
TShirts == <<"T", "-", "S", "h", "i", "r", "t", "s">>
Bottoms == <<"B", "o", "t", "t", "o", "m", "s">>
USD == <<"U", "S", "D">>
Pending == <<"p", "e", "n", "d", "i", "n", "g">>

EmptyDoc == [k \in {} |-> None]
IsNone(v) == "none" \in DOMAIN v
\* dict.get(k, dflt)
Get(d, k, dflt) == IF k \in DOMAIN d THEN d[k] ELSE dflt

----------------------------------------------------------------------------
(* schemas.py: a request body is accepted (and completed with the field    *)
(* defaults) or rejected with 422 before the handler runs.                 *)

ProductVariantValid(v) == Get(v.doc, "stock", N(0)).num >= 0

ProductVariant(v) ==
    D([size  |-> Get(v.doc, "size", None),
       color |-> Get(v.doc, "color", None),
       sku   |-> Get(v.doc, "sku", None),
       stock |-> Get(v.doc, "stock", N(0))])

ProductValid(raw) ==
    /\ {"title", "price", "category"} \subseteq DOMAIN raw
    /\ raw.price.num >= 0
    /\ LET vs == Get(raw, "variants", L(<<>>)).list
       IN  \A i \in 1..Len(vs) : ProductVariantValid(vs[i])

Product(raw) ==
    [title       |-> raw.title,
     description |-> Get(raw, "description", None),
     price       |-> raw.price,
     category    |-> raw.category,
     images      |-> Get(raw, "images", L(<<>>)),
     brand       |-> Get(raw, "brand", S(Vistro)),
     tags        |-> Get(raw, "tags", L(<<>>)),
     variants    |-> LET vs == Get(raw, "variants", L(<<>>)).list
                     IN  L([i \in 1..Len(vs) |-> ProductVariant(vs[i])]),
     featured    |-> Get(raw, "featured", B(FALSE))]

\* quantity declared ge=0 for the ge=1 of schemas.py:31
CartItemValidGe0(it) ==
    /\ {"product_id", "quantity"} \subseteq DOMAIN it.doc
    /\ it.doc.quantity.num >= 0

CartItemValid(it) ==
    /\ {"product_id", "quantity"} \subseteq DOMAIN it.doc
    /\ it.doc.quantity.num >= 1

CartItem(it) ==
    D([product_id |-> it.doc.product_id,
       quantity   |-> it.doc.quantity,
       size       |-> Get(it.doc, "size", None),
       color      |-> Get(it.doc, "color", None)])

\* EmailStr: a local part, an "@" and a domain
EmailValid(e) ==
    \E i \in 2..(Len(e.str) - 1) :
        /\ e.str[i] = "@"
        /\ \A j \in 1..Len(e.str) : j # i => e.str[j] # "@"

CustomerInfoValid(c) ==
    /\ {"name", "email", "address", "city", "country", "postal_code"}
           \subseteq DOMAIN c.doc
    /\ EmailValid(c.doc.email)

OrderValid(raw) ==
    /\ {"items", "subtotal", "shipping", "total", "customer"} \subseteq DOMAIN raw
    /\ \A i \in 1..Len(raw.items.list) : CartItemValid(raw.items.list[i])
    /\ raw.subtotal.num >= 0
    /\ raw.shipping.num >= 0
    /\ raw.total.num >= 0
    /\ CustomerInfoValid(raw.customer)

Order(raw) ==
    [items    |-> L([i \in 1..Len(raw.items.list) |-> CartItem(raw.items.list[i])]),
     subtotal |-> raw.subtotal,
     shipping |-> raw.shipping,
     total    |-> raw.total,
     currency |-> Get(raw, "currency", S(USD)),
     status   |-> Get(raw, "status", S(Pending)),
     customer |-> raw.customer]

----------------------------------------------------------------------------
(* main.py:27-37                                                           *)

\* d = dict(doc); if "_id" in d: d["id"] = str(d.pop("_id"))
PopId(doc) ==
    IF "_id" \in DOMAIN doc
    THEN [k \in (DOMAIN doc \ {"_id"}) \cup {"id"} |->
             IF k = "id" THEN S(str(doc["_id"])) ELSE doc[k]]
    ELSE doc

\* d["id"] = str(d["_id"]) without the pop: `_id` stays in the document
serialize_doc_keeps_id(doc) ==
    IF DOMAIN doc = {} THEN doc
    ELSE LET d == IF "_id" \in DOMAIN doc
                  THEN [k \in DOMAIN doc \cup {"id"} |->
                           IF k = "id" THEN S(str(doc["_id"])) ELSE doc[k]]
                  ELSE doc
         IN  [k \in DOMAIN d |-> IF IsObjectId(d[k]) THEN S(str(d[k])) ELSE d[k]]

\* the loop over d.items(): the values of the top-level keys only
serialize_doc(doc) ==
    IF DOMAIN doc = {} THEN doc
    ELSE LET d == PopId(doc)
         IN  [k \in DOMAIN d |-> IF IsObjectId(d[k]) THEN S(str(d[k])) ELSE d[k]]

----------------------------------------------------------------------------
(* The persistence gateway (database.py: create_document, get_documents,   *)
(* and the pymongo collection calls main.py makes on db).                  *)

StoreOp(op, coll, key) == [op |-> op, coll |-> coll, key |-> key]

\* a flat equality filter
Matches(doc, query) ==
    \A k \in DOMAIN query : k \in DOMAIN doc /\ doc[k] = query[k]

\* get_documents(collection, query)
get_documents(docs, query) == SelectSeq(docs, LAMBDA d : Matches(d, query))

\* collection.find_one({"_id": oid}): the document, or None
find_one(docs, oid) ==
    IF \E i \in 1..Len(docs) : docs[i]["_id"] = oid
    THEN D(docs[CHOOSE i \in 1..Len(docs) : docs[i]["_id"] = oid])
    ELSE None

\* collection.count_documents({})
count_documents(docs) == Len(docs)

\* create_document(collection, entity): the collection after the insert of the
\* entity's fields under the identifier the store generates
create_document(docs, entity, id) ==
    Append(docs, [k \in DOMAIN entity \cup {"_id"} |->
                     IF k = "_id" THEN Oid(id) ELSE entity[k]])

----------------------------------------------------------------------------
(* Responses.                                                              *)

Response(status, detail, arg, body) ==
    [status |-> status, detail |-> detail, arg |-> arg, body |-> body]

HTTPException(status, detail, arg) == Response(status, detail, arg, None)
ValidationError == HTTPException(422, "Unprocessable Entity", Empty)
\* an exception no handler catches
ServerError == HTTPException(500, "Internal Server Error", Empty)
NotConfigured == HTTPException(500, "Database not configured", Empty)

\* what a handler leaves behind: its response, the store operations it issued,
\* and the store after it
Result(resp, ops, p, o, n) ==
    [resp |-> resp, ops |-> ops, product |-> p, order |-> o, nextId |-> n]
Unchanged(resp, ops) == Result(resp, ops, product, order, nextId)

----------------------------------------------------------------------------
(* The handlers.  `up` says whether the store answers during the request:  *)
(* when it does not, the first store operation of the handler raises.      *)

\* the query built with `if featured:` for the `is not None` of main.py:87
ListQueryTruthyFeatured(category, featured) ==
    LET q == IF ~IsNone(category) /\ category.str # Empty
             THEN [category |-> category] ELSE EmptyDoc
    IN  IF ~IsNone(featured) /\ featured.bool
        THEN [featured |-> featured] @@ q ELSE q

\* main.py:84-88
ListQuery(category, featured) ==
    LET q == IF ~IsNone(category) /\ category.str # Empty
             THEN [category |-> category] ELSE EmptyDoc
    IN  IF ~IsNone(featured) THEN [featured |-> featured] @@ q ELSE q

\* main.py:80-90
list_products(category, featured, up) ==
    IF ~dbConfigured THEN Unchanged(NotConfigured, <<>>)
    ELSE LET ops == <<StoreOp("find", "product", None)>>
             found == get_documents(product, ListQuery(category, featured))
         IN  IF ~up THEN Unchanged(ServerError, ops)
             ELSE Unchanged(Response(200, "", Empty,
                      L([i \in 1..Len(found) |-> D(serialize_doc(found[i]))])), ops)

\* the lookup without the `if not doc` test of main.py:101-102
get_product_no_404(product_id, up) ==
    IF ~dbConfigured THEN Unchanged(NotConfigured, <<>>)
    ELSE IF ~ObjectIdValid(product_id)
    THEN Unchanged(HTTPException(400, "Invalid product id", Empty), <<>>)
    ELSE LET oid == ObjectId(product_id)
             ops == <<StoreOp("find_one", "product", oid)>>
             doc == find_one(product, oid)
         IN  IF ~up
             THEN Unchanged(HTTPException(400, "Invalid product id", Empty), ops)
             ELSE IF IsNone(doc)
             THEN Unchanged(Response(200, "", Empty, None), ops)
             ELSE Unchanged(Response(200, "", Empty, D(serialize_doc(doc.doc))), ops)

\* main.py:93-103
get_product(product_id, up) ==
    IF ~dbConfigured THEN Unchanged(NotConfigured, <<>>)
    ELSE IF ~ObjectIdValid(product_id)
    THEN Unchanged(HTTPException(400, "Invalid product id", Empty), <<>>)
    ELSE LET oid == ObjectId(product_id)
             ops == <<StoreOp("find_one", "product", oid)>>
             doc == find_one(product, oid)
         IN  IF ~up
             THEN Unchanged(HTTPException(400, "Invalid product id", Empty), ops)
             ELSE IF IsNone(doc)
             THEN Unchanged(HTTPException(404, "Product not found", Empty), ops)
             ELSE Unchanged(Response(200, "", Empty, D(serialize_doc(doc.doc))), ops)

\* main.py:106-112
create_product(raw, up) ==
    IF ~ProductValid(raw) THEN Unchanged(ValidationError, <<>>)
    ELSE IF ~dbConfigured THEN Unchanged(NotConfigured, <<>>)
    ELSE IF ~up
    THEN Unchanged(ServerError, <<StoreOp("insert", "product", None)>>)
    ELSE LET docs == create_document(product, Product(raw), nextId)
             new_id == str(Oid(nextId))
             doc == find_one(docs, ObjectId(new_id))
         IN  Result(Response(201, "", Empty, D(serialize_doc(doc.doc))),
                    <<StoreOp("insert", "product", Oid(nextId)),
                      StoreOp("find_one", "product", ObjectId(new_id))>>,
                    docs, order, nextId + 1)

\* the loop without the `if not prod` test of main.py:127
RECURSIVE CheckItemsNoLookupTest(_, _, _, _)
CheckItemsNoLookupTest(items, i, ops, up) ==
    IF i > Len(items) THEN [resp |-> None, ops |-> ops]
    ELSE LET pid == items[i].doc.product_id.str
         IN  IF ~ObjectIdValid(pid)
             THEN [resp |-> HTTPException(400, "Invalid product id", pid), ops |-> ops]
             ELSE LET look == Append(ops, StoreOp("find_one", "product", ObjectId(pid)))
                  IN  IF ~up THEN [resp |-> ServerError, ops |-> look]
                      ELSE CheckItemsNoLookupTest(items, i + 1, look, up)

\* the loop checking every identifier's syntax before the first lookup
RECURSIVE CheckItemsSyntaxFirst(_, _, _, _)
CheckItemsSyntaxFirst(items, i, ops, up) ==
    IF \E j \in i..Len(items) : ~ObjectIdValid(items[j].doc.product_id.str)
    THEN LET j == CHOOSE j \in i..Len(items) :
                      ~ObjectIdValid(items[j].doc.product_id.str)
         IN  [resp |-> HTTPException(400, "Invalid product id",
                                     items[j].doc.product_id.str), ops |-> ops]
    ELSE IF i > Len(items) THEN [resp |-> None, ops |-> ops]
    ELSE LET pid == items[i].doc.product_id.str
             look == Append(ops, StoreOp("find_one", "product", ObjectId(pid)))
         IN  IF ~up THEN [resp |-> ServerError, ops |-> look]
             ELSE IF IsNone(find_one(product, ObjectId(pid)))
             THEN [resp |-> HTTPException(400, "Product not found", pid),
                   ops |-> look]
             ELSE CheckItemsSyntaxFirst(items, i + 1, look, up)

\* main.py:121-128: the loop from item i on, after the lookups `ops`
RECURSIVE CheckItems(_, _, _, _)
CheckItems(items, i, ops, up) ==
    IF i > Len(items) THEN [resp |-> None, ops |-> ops]
    ELSE LET pid == items[i].doc.product_id.str
         IN  IF ~ObjectIdValid(pid)
             THEN [resp |-> HTTPException(400, "Invalid product id", pid), ops |-> ops]
             ELSE LET look == Append(ops, StoreOp("find_one", "product", ObjectId(pid)))
                  IN  IF ~up THEN [resp |-> ServerError, ops |-> look]
                      ELSE IF IsNone(find_one(product, ObjectId(pid)))
                      THEN [resp |-> HTTPException(400, "Product not found", pid),
                            ops |-> look]
                      ELSE CheckItems(items, i + 1, look, up)

\* main.py:116-131
create_order(raw, up) ==
    IF ~OrderValid(raw) THEN Unchanged(ValidationError, <<>>)
    ELSE IF ~dbConfigured THEN Unchanged(NotConfigured, <<>>)
    ELSE LET chk == CheckItems(Order(raw).items.list, 1, <<>>, up)
         IN  IF ~IsNone(chk.resp) THEN Unchanged(chk.resp, chk.ops)
             ELSE IF ~up
             THEN Unchanged(ServerError,
                            Append(chk.ops, StoreOp("insert", "order", None)))
             ELSE LET docs == create_document(order, Order(raw), nextId)
                      order_id == str(Oid(nextId))
                      doc == find_one(docs, ObjectId(order_id))
                  IN  Result(Response(201, "", Empty, D(serialize_doc(doc.doc))),
                             chk.ops \o <<StoreOp("insert", "order", Oid(nextId)),
                                          StoreOp("find_one", "order", ObjectId(order_id))>>,
                             product, docs, nextId + 1)

\* main.py:135-166 (texts abbreviated; each product has four variants)
Sizes == << <<"S">>, <<"M">>, <<"L">>, <<"X", "L">> >>

SampleVariants(color, stock) ==
    L([i \in 1..Len(Sizes) |->
         D([size |-> S(Sizes[i]), color |-> S(color),
            sku |-> S(<<"V", "T">> \o color \o Sizes[i]), stock |-> N(stock)])])

SAMPLE_PRODUCTS ==
    << Product([title |-> S(<<"T", "e", "e">>), description |-> S(<<"t">>),
                price |-> N(28), category |-> S(TShirts),
                images |-> L(<<S(<<"u", "1">>)>>),
                tags |-> L(<<S(<<"t", "e", "e">>)>>),
                variants |-> SampleVariants(<<"B">>, 50), featured |-> B(TRUE)]),
       Product([title |-> S(<<"H", "o", "o", "d", "i", "e">>), description |-> S(<<"h">>),
                price |-> N(64), category |-> S(Hoodies),
                images |-> L(<<S(<<"u", "2">>)>>),
                tags |-> L(<<S(<<"h", "o", "o", "d", "i", "e">>)>>),
                variants |-> SampleVariants(<<"G">>, 30), featured |-> B(TRUE)]),
       Product([title |-> S(<<"J", "o", "g", "g", "e", "r", "s">>), description |-> S(<<"j">>),
                price |-> N(54), category |-> S(Bottoms),
                images |-> L(<<S(<<"u", "3">>)>>),
                tags |-> L(<<S(<<"j", "o", "g", "g", "e", "r", "s">>)>>),
                variants |-> SampleVariants(<<"C">>, 40), featured |-> B(FALSE)]) >>

\* main.py:176-179: the inserts of the first k sample products
RECURSIVE SeedInserts(_)
SeedInserts(k) ==
    IF k = 0 THEN [docs |-> product, ids |-> <<>>, ops |-> <<>>]
    ELSE LET r == SeedInserts(k - 1)
             id == nextId + (k - 1)
         IN  [docs |-> create_document(r.docs, SAMPLE_PRODUCTS[k], id),
              ids  |-> Append(r.ids, S(str(Oid(id)))),
              ops  |-> Append(r.ops, StoreOp("insert", "product", Oid(id)))]

\* seeding without the `if count > 0` return of main.py:174-175
seed_products_unguarded(up) ==
    IF ~dbConfigured THEN Unchanged(NotConfigured, <<>>)
    ELSE LET cnt == <<StoreOp("count", "product", None)>>
         IN  IF ~up THEN Unchanged(ServerError, cnt)
             ELSE LET r == SeedInserts(Len(SAMPLE_PRODUCTS))
                  IN  Result(Response(200, "Seeded sample products", Empty, L(r.ids)),
                             cnt \o r.ops, r.docs, order, nextId + Len(SAMPLE_PRODUCTS))

\* main.py:169-180
seed_products(up) ==
    IF ~dbConfigured THEN Unchanged(NotConfigured, <<>>)
    ELSE LET cnt == <<StoreOp("count", "product", None)>>
             count == count_documents(product)
         IN  IF ~up THEN Unchanged(ServerError, cnt)
             ELSE IF count > 0
             THEN Unchanged(Response(200, "Products already seeded", Empty, N(count)), cnt)
             ELSE LET r == SeedInserts(Len(SAMPLE_PRODUCTS))
                  IN  Result(Response(200, "Seeded sample products", Empty, L(r.ids)),
                             cnt \o r.ops, r.docs, order, nextId + Len(SAMPLE_PRODUCTS))

----------------------------------------------------------------------------
(* The requests the model issues.                                          *)

Upper(s) == [i \in 1..Len(s) |-> HexUpper[DigitVal(s[i]) + 1]]

\* the first two identifiers the store generates, as the API prints them
FirstStr == str(Oid(FirstId))
SecondStr == str(Oid(FirstId + 1))
\* well-formed, never generated within the bounds
NeverStr == [i \in 1..IdLen |-> "f"]
\* malformed: not hexadecimal, and too short
NonHexStr == [i \in 1..IdLen |-> "z"]
ShortStr == SubSeq(FirstStr, 1, IdLen - 1)

GetIds == {FirstStr, Upper(FirstStr), SecondStr, NeverStr, NonHexStr, ShortStr}
ItemIds == {Upper(FirstStr), NeverStr, NonHexStr}

Categories == {None, S(Empty), S(Hoodies), S(TShirts)}
Featureds == {None, B(TRUE), B(FALSE)}

\* a cap without a category and a featured hoodie, each also with a negative
\* price and with a negative variant stock
RawProducts ==
    { [title |-> S(<<"C", "a", "p">>), price |-> N(pr), category |-> S(Empty),
       variants |-> L(<<D(v)>>)] :
        pr \in {-1, 28}, v \in {[stock |-> N(-1)], [size |-> S(<<"M">>)]} }
    \cup
    { [title |-> S(<<"Z", "i", "p">>), price |-> N(pr), category |-> S(Hoodies),
       variants |-> L(<<D(v)>>), featured |-> B(TRUE)] :
        pr \in {-1, 64}, v \in {[stock |-> N(-1)], [stock |-> N(7), sku |-> S(<<"Z">>)]} }

\* items that resolve (once a product is stored), that are well-formed but
\* missing, that are malformed, and one with quantity 0
RawItems ==
    { D([product_id |-> S(pid), quantity |-> N(1)]) : pid \in ItemIds }
        \cup { D([product_id |-> S(Upper(FirstStr)), quantity |-> N(0)]) }

ItemLists == UNION { [1..n -> RawItems] : n \in 0..MaxItems }

Customer(email) ==
    D([name |-> S(<<"A">>), email |-> S(email), address |-> S(<<"1">>),
       city |-> S(<<"C">>), country |-> S(<<"N">>), postal_code |-> S(<<"9">>)])

RawOrder(items, total, email) ==
    [items |-> L(items), subtotal |-> N(10), shipping |-> N(0), total |-> N(total),
     customer |-> Customer(email)]

GoodEmail == <<"a", "@", "b">>

RawOrders ==
    { RawOrder(items, 10, GoodEmail) : items \in ItemLists }
        \cup { RawOrder(<<>>, -1, GoodEmail), RawOrder(<<>>, 10, <<"a", "b">>) }

----------------------------------------------------------------------------
(* The sequential service: one request at a time, each served whole.       *)

NoRequest ==
    [op |-> "none", input |-> None, up |-> TRUE,
     resp |-> Response(0, "", Empty, None), ops |-> <<>>]

Idle == [w \in 1..NumSeeders |-> "idle"]

Init ==
    /\ dbConfigured \in BOOLEAN
    /\ product = <<>>
    /\ order = <<>>
    /\ nextId = FirstId
    /\ last = NoRequest
    /\ created = <<>>
    /\ pc = Idle
    /\ seedIdx = [w \in 1..NumSeeders |-> 0]
    /\ seedOut = [w \in 1..NumSeeders |-> Response(0, "", Empty, None)]
    /\ payload = EmptyDoc
    /\ out = [done |-> FALSE, doc |-> EmptyDoc]

\* the request is served: its response and its effect on the store
Serve(op, input, up, r) ==
    /\ last' = [op |-> op, input |-> input, up |-> up, resp |-> r.resp, ops |-> r.ops]
    /\ product' = r.product
    /\ order' = r.order
    /\ nextId' = r.nextId
    /\ UNCHANGED <<dbConfigured, pc, seedIdx, seedOut, payload, out>>

ListProducts ==
    /\ last.op = "none"
    /\ \E category \in Categories, featured \in Featureds, up \in BOOLEAN :
        /\ Serve("list_products", D([category |-> category, featured |-> featured]),
                 up, list_products(category, featured, up))
        /\ UNCHANGED created

GetProduct ==
    /\ last.op = "none"
    /\ \E product_id \in GetIds, up \in BOOLEAN :
        /\ Serve("get_product", S(product_id), up, get_product(product_id, up))
        /\ UNCHANGED created

CreateProduct ==
    /\ last.op = "none"
    /\ \E raw \in RawProducts, up \in BOOLEAN :
        LET r == create_product(raw, up)
        IN  /\ r.resp.status = 201 => Len(created) < MaxCreated
            /\ Serve("create_product", D(raw), up, r)
            /\ created' = IF r.resp.status = 201
                          THEN Append(created, [id |-> r.resp.body.doc.id,
                                                p |-> Product(raw)])
                          ELSE created

CreateOrder ==
    /\ last.op = "none"
    /\ \E raw \in RawOrders, up \in BOOLEAN :
        LET r == create_order(raw, up)
        IN  /\ r.resp.status = 201 => Len(order) < MaxOrders
            /\ Serve("create_order", D(raw), up, r)
            /\ UNCHANGED created

SeedProducts ==
    /\ last.op = "none"
    /\ \E up \in BOOLEAN :
        /\ Serve("seed_products", None, up, seed_products(up))
        /\ UNCHANGED created

\* the response leaves; the next request can be served
Respond ==
    /\ last.op # "none"
    /\ last' = NoRequest
    /\ UNCHANGED <<dbConfigured, product, order, nextId, created,
                   pc, seedIdx, seedOut, payload, out>>

Next ==
    \/ ListProducts
    \/ GetProduct
    \/ CreateProduct
    \/ CreateOrder
    \/ SeedProducts
    \/ Respond

Spec == Init /\ [][Next]_vars

----------------------------------------------------------------------------
(* Concurrent seed requests.  seed_products is one count_documents round   *)
(* trip followed by one insert per sample product (main.py:173-179); the   *)
(* requests share nothing but the store, and take no lock.                 *)

Seeders == 1..NumSeeders

\* main.py:171-176: the request starts, and counts the products
SeedCount(w) ==
    /\ pc[w] = "idle"
    /\ IF ~dbConfigured
       THEN /\ pc' = [pc EXCEPT ![w] = "done"]
            /\ seedOut' = [seedOut EXCEPT ![w] = NotConfigured]
            /\ UNCHANGED seedIdx
       ELSE IF count_documents(product) > 0
       THEN /\ pc' = [pc EXCEPT ![w] = "done"]
            /\ seedOut' = [seedOut EXCEPT ![w] =
                   Response(200, "Products already seeded", Empty,
                            N(count_documents(product)))]
            /\ UNCHANGED seedIdx
       ELSE /\ pc' = [pc EXCEPT ![w] = "inserting"]
            /\ seedIdx' = [seedIdx EXCEPT ![w] = 1]
            /\ seedOut' = [seedOut EXCEPT ![w] =
                   Response(200, "Seeded sample products", Empty, L(<<>>))]
    /\ UNCHANGED <<dbConfigured, product, order, nextId, last, created, payload, out>>

\* main.py:177-180: one turn of the loop, and the return after the last
SeedInsert(w) ==
    /\ pc[w] = "inserting"
    /\ product' = create_document(product, SAMPLE_PRODUCTS[seedIdx[w]], nextId)
    /\ nextId' = nextId + 1
    /\ seedOut' = [seedOut EXCEPT ![w].body =
                      L(Append(seedOut[w].body.list, S(str(Oid(nextId)))))]
    /\ IF seedIdx[w] = Len(SAMPLE_PRODUCTS)
       THEN pc' = [pc EXCEPT ![w] = "done"] /\ UNCHANGED seedIdx
       ELSE seedIdx' = [seedIdx EXCEPT ![w] = seedIdx[w] + 1] /\ UNCHANGED pc
    /\ UNCHANGED <<dbConfigured, order, last, created, payload, out>>

NextConc == \E w \in Seeders : SeedCount(w) \/ SeedInsert(w)

SpecConc == Init /\ [][NextConc]_vars

----------------------------------------------------------------------------
(* serialize_doc on documents of any shape.                                *)

\* documents with an identifier at the top level, as a top-level value,
\* inside a nested document and inside a list
Payloads ==
    { a @@ b @@ c @@ d :
        a \in {EmptyDoc, [_id |-> Oid(FirstId)]},
        b \in {EmptyDoc, [ref |-> Oid(FirstId + 1)], [ref |-> S(Hoodies)]},
        c \in {EmptyDoc, [owner |-> D([_id |-> Oid(FirstId)])],
               [owner |-> D([name |-> S(Vistro)])]},
        d \in {EmptyDoc, [items |-> L(<<>>)], [items |-> L(<<Oid(FirstId)>>)],
               [items |-> L(<<D([product |-> Oid(FirstId)])>>)],
               [items |-> L(<<D([product_id |-> S(FirstStr)])>>)]} }

InitSer ==
    /\ dbConfigured = TRUE
    /\ product = <<>>
    /\ order = <<>>
    /\ nextId = FirstId
    /\ last = NoRequest
    /\ created = <<>>
    /\ pc = Idle
    /\ seedIdx = [w \in 1..NumSeeders |-> 0]
    /\ seedOut = [w \in 1..NumSeeders |-> Response(0, "", Empty, None)]
    /\ payload \in Payloads
    /\ out = [done |-> FALSE, doc |-> EmptyDoc]

Serialize ==
    /\ ~out.done
    /\ out' = [done |-> TRUE, doc |-> serialize_doc(payload)]
    /\ UNCHANGED <<dbConfigured, product, order, nextId, last, created,
                   pc, seedIdx, seedOut, payload>>

NextSer == Serialize

SpecSer == InitSer /\ [][NextSer]_vars

----------------------------------------------------------------------------
(* Vocabulary of the properties, stated on the requests and the store      *)
(* without the handlers' own helpers.                                      *)

\* the request just served ran with the store handle set and the store up
Available == dbConfigured /\ last.up

\* a syntactically invalid identifier
Malformed(pid) == Len(pid) # IdLen \/ \E i \in 1..Len(pid) : ~IsHex(pid[i])

\* the stored documents whose identifier prints as pid, whatever the case of
\* pid's hex digits
StoredAs(docs, pid) ==
    { i \in 1..Len(docs) : Upper(str(docs[i]["_id"])) = Upper(pid) }

Missing(docs, pid) == ~Malformed(pid) /\ StoredAs(docs, pid) = {}

\* a stored document as it travels: `_id` gone, `id` its printed identifier
Transport(d) ==
    [k \in (DOMAIN d \ {"_id"}) \cup {"id"} |->
        IF k = "id" THEN S(str(d["_id"])) ELSE d[k]]

ItemIdsOf(raw) ==
    [i \in 1..Len(raw.items.list) |-> raw.items.list[i].doc.product_id.str]

BadItem(docs, pid) == Malformed(pid) \/ Missing(docs, pid)

Inserts(ops) == SelectSeq(ops, LAMBDA o : o.op = "insert")

----------------------------------------------------------------------------
\* C1: a schema-valid order with a malformed or unknown product_id is refused
\* with 400 and nothing is written: both collections are left as they were
\* (checked for requests served with the store available).
C1_RejectedOrderWritesNothing ==
    [][ ( /\ last'.op = "create_order"
          /\ dbConfigured /\ last'.up
          /\ OrderValid(last'.input.doc)
          /\ \E i \in 1..Len(ItemIdsOf(last'.input.doc)) :
                 BadItem(product, ItemIdsOf(last'.input.doc)[i]) )
        => ( /\ last'.resp.status = 400
             /\ Len(product') = Len(product)
             /\ Len(order') = Len(order)
             /\ product' = product
             /\ order' = order
             /\ Inserts(last'.ops) = <<>> ) ]_vars

\* C1 witness: with a product stored, an order whose first item resolves and
\* whose second does not has been refused with 400
C1_Witness ==
    /\ last.op = "create_order"
    /\ Available
    /\ OrderValid(last.input.doc)
    /\ Len(product) > 0
    /\ Len(ItemIdsOf(last.input.doc)) = 2
    /\ ~BadItem(product, ItemIdsOf(last.input.doc)[1])
    /\ BadItem(product, ItemIdsOf(last.input.doc)[2])
    /\ last.resp.status = 400

----------------------------------------------------------------------------
\* the documents of a collection without their identifiers
Entities(docs) ==
    [i \in 1..Len(docs) |-> [k \in DOMAIN docs[i] \ {"_id"} |-> docs[i][k]]]

PrintedIds(docs) == [i \in 1..Len(docs) |-> S(str(docs[i]["_id"]))]

\* C2: seed_products on an empty product collection inserts exactly the N
\* sample products and returns their N ids; on a non-empty collection (in
\* particular on the second of two calls in sequence) it inserts nothing and
\* answers "already seeded" with the existing count.
C2_SeedOnceThenAlreadySeeded ==
    [][ (last'.op = "seed_products" /\ dbConfigured /\ last'.up)
        => IF Len(product) = 0
           THEN /\ last'.resp.status = 200
                /\ last'.resp.detail = "Seeded sample products"
                /\ Entities(product') = SAMPLE_PRODUCTS
                /\ last'.resp.body = L(PrintedIds(product'))
                /\ Len(last'.resp.body.list) = Len(SAMPLE_PRODUCTS)
                /\ Cardinality({product'[i]["_id"] : i \in 1..Len(product')})
                       = Len(SAMPLE_PRODUCTS)
           ELSE /\ last'.resp.status = 200
                /\ last'.resp.detail = "Products already seeded"
                /\ last'.resp.body = N(Len(product))
                /\ product' = product
                /\ Inserts(last'.ops) = <<>> ]_vars

\* C2 witness: the second call after a first that seeded: the collection
\* holds the N samples and the answer is "already seeded" with count N
C2_Witness ==
    /\ last.op = "seed_products"
    /\ Available
    /\ Entities(product) = SAMPLE_PRODUCTS
    /\ last.resp.detail = "Products already seeded"
    /\ last.resp.body = N(Len(SAMPLE_PRODUCTS))

----------------------------------------------------------------------------
\* C3: get_product answers 400 (not 500) to a syntactically invalid
\* identifier, 404 to a well-formed identifier of no stored product, and the
\* stored product to a well-formed identifier of one (checked for requests
\* served with the store handle set and, for the last two, the store up).
C3_GetProductStatuses ==
    (last.op = "get_product" /\ dbConfigured)
    => LET pid == last.input.str
       IN  IF Malformed(pid)
           THEN last.resp.status = 400 /\ last.resp.detail = "Invalid product id"
           ELSE last.up =>
                IF Missing(product, pid)
                THEN last.resp.status = 404 /\ last.resp.detail = "Product not found"
                ELSE /\ last.resp.status = 200
                     /\ \E i \in StoredAs(product, pid) :
                            last.resp.body = D(Transport(product[i]))

\* C3 witnesses: each of the three answers has been given, the 404 and the
\* 400 with products stored
C3_Witness ==
    /\ last.op = "get_product"
    /\ Available
    /\ Len(product) > 0
    /\ Missing(product, last.input.str)
    /\ last.resp.status = 404

C3_WitnessMalformed ==
    /\ last.op = "get_product"
    /\ Available
    /\ Len(product) > 0
    /\ Malformed(last.input.str)
    /\ last.resp.status = 400

C3_WitnessFound ==
    /\ last.op = "get_product"
    /\ Available
    /\ last.input.str = Upper(FirstStr)
    /\ last.resp.status = 200
    /\ last.resp.body.doc.id = S(FirstStr)

----------------------------------------------------------------------------
\* p with the string field `id` added and nothing else changed
WithId(p, id) == [k \in DOMAIN p \cup {"id"} |-> IF k = "id" THEN id ELSE p[k]]

\* C4: round trip: whatever was served since, get_product on the id that
\* create_product(p) returned yields p in every field plus the string field
\* `id`, and nothing else.
C4_CreateGetRoundTrip ==
    /\ \A i \in 1..Len(created) :
           LET c == created[i]
               got == get_product(c.id.str, TRUE).resp
           IN  /\ "str" \in DOMAIN c.id
               /\ got.status = 200
               /\ DOMAIN got.body.doc = DOMAIN c.p \cup {"id"}
               /\ "id" \notin DOMAIN c.p
               /\ got.body.doc = WithId(c.p, c.id)
    /\ (last.op = "create_product" /\ last.resp.status = 201)
           => /\ Len(created) > 0
              /\ last.resp.body.doc =
                     WithId(Product(last.input.doc), created[Len(created)].id)
    /\ (last.op = "get_product" /\ Available)
           => \A i \in 1..Len(created) :
                  last.input.str = created[i].id.str
                      => last.resp.body.doc = WithId(created[i].p, created[i].id)

\* C4 witness: a product was created, an order was written after it, and the
\* get_product of the returned id has been served
C4_Witness ==
    /\ Len(created) > 0
    /\ Len(order) > 0
    /\ last.op = "get_product"
    /\ Available
    /\ last.input = created[1].id
    /\ last.resp.status = 200
    /\ last.resp.body.doc.featured = B(FALSE)

----------------------------------------------------------------------------
\* the stored products, in transport form, that pass the test
Selected(Test(_)) ==
    LET hits == SelectSeq(product, Test)
    IN  [i \in 1..Len(hits) |-> D(Transport(hits[i]))]

\* the same documents up to order, each as often
SameBag(a, b) ==
    /\ Len(a) = Len(b)
    /\ \A x \in {a[i] : i \in 1..Len(a)} :
           Cardinality({i \in 1..Len(a) : a[i] = x})
               = Cardinality({i \in 1..Len(b) : b[i] = x})

\* C5 as stated: list_products returns exactly the stored products that equal
\* every given filter: a given category, a given featured flag, both, or all
\* products when none is given.
C5_ListMatchesGivenFilters ==
    (last.op = "list_products" /\ Available)
    => LET f == last.input.doc
           Test(d) == /\ ~IsNone(f.category) => d.category = f.category
                      /\ ~IsNone(f.featured) => d.featured = f.featured
       IN  /\ last.resp.status = 200
           /\ SameBag(last.resp.body.list, Selected(Test))

\* C5 amended: as C5, except that an empty category string is no filter: the
\* category filter applies only when the given category is non-empty.
C5_ListMatchesNonEmptyFilters ==
    (last.op = "list_products" /\ Available)
    => LET f == last.input.doc
           Test(d) == /\ (~IsNone(f.category) /\ f.category # S(Empty))
                          => d.category = f.category
                      /\ ~IsNone(f.featured) => d.featured = f.featured
       IN  /\ last.resp.status = 200
           /\ SameBag(last.resp.body.list, Selected(Test))

\* C5 witness: with the samples and one more product stored, a listing by
\* category and featured=true has returned some but not all of them
C5_Witness ==
    /\ last.op = "list_products"
    /\ Available
    /\ Len(product) > Len(SAMPLE_PRODUCTS)
    /\ last.input.doc.category = S(Hoodies)
    /\ last.input.doc.featured = B(TRUE)
    /\ Len(last.resp.body.list) = 2

\* C5 witness of the amended case: a listing with featured=false and an empty
\* category has returned the products that are not featured, whatever their
\* category
C5_WitnessEmptyCategory ==
    /\ last.op = "list_products"
    /\ Available
    /\ Len(product) > Len(SAMPLE_PRODUCTS)
    /\ last.input.doc.category = S(Empty)
    /\ last.input.doc.featured = B(FALSE)
    /\ Len(last.resp.body.list) = 2

----------------------------------------------------------------------------
\* a value holds a native identifier, or a native `_id` key, at some depth
RECURSIVE HasNativeId(_)
HasNativeId(v) ==
    \/ IsObjectId(v)
    \/ /\ "list" \in DOMAIN v
       /\ \E i \in 1..Len(v.list) : HasNativeId(v.list[i])
    \/ /\ "doc" \in DOMAIN v
       /\ \/ "_id" \in DOMAIN v.doc
          \/ \E k \in DOMAIN v.doc : HasNativeId(v.doc[k])

\* C6: serialisation is recursive: in what serialize_doc returns, no native
\* identifier value and no native `_id` key is left at any nesting depth.
C6_NoNativeIdAtAnyDepth ==
    out.done => ~HasNativeId(D(out.doc))

\* C6 holds of the responses the handlers of the sequential service build
\* from the documents they stored themselves
C6_ResponsesOfOwnDocuments ==
    last.op # "none" => ~HasNativeId(last.resp.body)

----------------------------------------------------------------------------
\* a body the schemas must refuse: a negative price or variant stock, or an
\* item quantity below 1
NegativePriceOrStock(raw) ==
    \/ raw.price.num < 0
    \/ \E i \in 1..Len(raw.variants.list) :
           /\ "stock" \in DOMAIN raw.variants.list[i].doc
           /\ raw.variants.list[i].doc.stock.num < 0

QuantityBelowOne(raw) ==
    \E i \in 1..Len(raw.items.list) : raw.items.list[i].doc.quantity.num < 1

\* C7: a body with price < 0, a variant stock < 0 or an item quantity < 1
\* fails validation (422) and never reaches the store: the request issues no
\* store operation and leaves the store as it was.
C7_InvalidBodyNeverReachesStore ==
    [][ ( \/ /\ last'.op = "create_product"
             /\ NegativePriceOrStock(last'.input.doc)
          \/ /\ last'.op = "create_order"
             /\ QuantityBelowOne(last'.input.doc) )
        => ( /\ last'.resp.status = 422
             /\ last'.ops = <<>>
             /\ product' = product
             /\ order' = order
             /\ nextId' = nextId ) ]_vars

\* C7 witness: with the store available and the product it names stored, an
\* order with an item of quantity 0 has been refused
C7_Witness ==
    /\ last.op = "create_order"
    /\ Available
    /\ Len(product) > 0
    /\ QuantityBelowOne(last.input.doc)
    /\ \A i \in 1..Len(ItemIdsOf(last.input.doc)) :
           ~BadItem(product, ItemIdsOf(last.input.doc)[i])
    /\ last.resp.status = 422

C7_WitnessProduct ==
    /\ last.op = "create_product"
    /\ Available
    /\ NegativePriceOrStock(last.input.doc)
    /\ last.input.doc.price.num >= 0
    /\ last.resp.status = 422

----------------------------------------------------------------------------
\* the request just served met an unavailable store: the handle was absent, or
\* a store operation it issued failed
StoreFailed ==
    /\ last.op # "none"
    /\ last.resp.status # 422
    /\ ~dbConfigured \/ (~last.up /\ last.ops # <<>>)

\* C8: a request that meets an unavailable store is answered 500, never 400
\* or 404, by every handler.
C8_UnavailableStoreIs500 ==
    StoreFailed => last.resp.status = 500

\* C8 for the handlers other than get_product
C8_UnavailableStoreIs500ButGet ==
    (StoreFailed /\ last.op # "get_product") => last.resp.status = 500

----------------------------------------------------------------------------
\* the index of the earliest item from i on that is malformed or missing, or
\* Len(ids) + 1 when there is none
RECURSIVE FirstBad(_, _, _)
FirstBad(docs, ids, i) ==
    IF i > Len(ids) \/ BadItem(docs, ids[i]) THEN i ELSE FirstBad(docs, ids, i + 1)

\* the lookups of the first n items, in list order
Lookups(ids, n) ==
    [i \in 1..n |-> StoreOp("find_one", "product", ObjectId(ids[i]))]

\* C9: create_order checks the items in list order and stops at the first
\* invalid one: the 400 names the product_id of the earliest malformed or
\* missing item ("Invalid product id" / "Product not found"), the items
\* before it are looked up and none after it, and the order is written only
\* once every item has passed (checked for requests served with the store
\* available).
C9_FirstInvalidItemStopsTheCheck ==
    [][ (last'.op = "create_order" /\ dbConfigured /\ last'.up
            /\ OrderValid(last'.input.doc))
        => LET ids == ItemIdsOf(last'.input.doc)
               j == FirstBad(product, ids, 1)
           IN  IF j <= Len(ids)
               THEN /\ last'.resp.status = 400
                    /\ last'.resp.arg = ids[j]
                    /\ last'.resp.detail =
                           IF Malformed(ids[j]) THEN "Invalid product id"
                           ELSE "Product not found"
                    /\ last'.ops =
                           Lookups(ids, IF Malformed(ids[j]) THEN j - 1 ELSE j)
                    /\ order' = order
               ELSE /\ last'.resp.status = 201
                    /\ Len(last'.ops) = Len(ids) + 2
                    /\ SubSeq(last'.ops, 1, Len(ids)) = Lookups(ids, Len(ids))
                    /\ last'.ops[Len(ids) + 1].op = "insert"
                    /\ last'.ops[Len(ids) + 1].coll = "order"
                    /\ Len(order') = Len(order) + 1
                    /\ Entities(order')[Len(order')] = Order(last'.input.doc) ]_vars

\* C9 witness: an order of a missing item followed by a malformed one has been
\* refused naming the missing one, after one lookup
C9_Witness ==
    /\ last.op = "create_order"
    /\ Available
    /\ Len(product) > 0
    /\ ItemIdsOf(last.input.doc) = <<NeverStr, NonHexStr>>
    /\ OrderValid(last.input.doc)
    /\ last.resp.status = 400
    /\ last.resp.detail = "Product not found"
    /\ last.resp.arg = NeverStr
    /\ Len(last.ops) = 1

\* C9 witness of the success case: an order of two resolving items has been
\* written after two lookups
C9_WitnessWritten ==
    /\ last.op = "create_order"
    /\ Available
    /\ Len(ItemIdsOf(last.input.doc)) = 2
    /\ last.resp.status = 201
    /\ Len(order) = 1

----------------------------------------------------------------------------
AllSeedsDone == \A w \in Seeders : pc[w] = "done"

\* C10: however concurrent seed requests against an empty product collection
\* interleave, the collection ends up with exactly the N sample products, each
\* stored once, and at most one request reports having inserted.
C10_ConcurrentSeedsInsertOnce ==
    (dbConfigured /\ AllSeedsDone)
    => /\ Len(product) = Len(SAMPLE_PRODUCTS)
       /\ \A k \in 1..Len(SAMPLE_PRODUCTS) :
              Cardinality({i \in 1..Len(product) :
                              Entities(product)[i] = SAMPLE_PRODUCTS[k]}) = 1
       /\ Cardinality({w \in Seeders :
                          seedOut[w].detail = "Seeded sample products"}) <= 1

\* when a single request reports having inserted, the collection holds exactly
\* the samples
C10_SeedsInSequenceInsertOnce ==
    (dbConfigured /\ AllSeedsDone
        /\ Cardinality({w \in Seeders :
                           seedOut[w].detail = "Seeded sample products"}) = 1)
    => Entities(product) = SAMPLE_PRODUCTS

====
